---- MODULE Spec2Model ----
(***************************************************************************)
(* The schema interpretation engine of dynamic-form: the condition         *)
(* evaluator, the validator compiler (zod ruleset), the reactive           *)
(* visibility tracker of DynamicFormGenerator and the step orchestrator    *)
(* MultiStepForm, as one state machine.                                    *)
(*                                                                         *)
(* The field value store (react-hook-form) and React are libraries: they   *)
(* are modelled by the contract the components rely on.  A value change    *)
(* notifies the watch subscriber with the whole snapshot; unregister       *)
(* (keepValue: false) deletes the entry and notifies; a state update that  *)
(* returns a new object re-renders the component and runs the effects      *)
(* whose dependencies changed before the next user event is handled.       *)
(***************************************************************************)
EXTENDS Integers, Sequences, FiniteSets, TLC

(***************************************************************************)
(* JavaScript values.  A string is a sequence of one-character strings so  *)
(* that includes(), toLowerCase() and the regular expressions are computed *)
(* and not assumed.  Every value has the same four fields.                 *)
(***************************************************************************)
Undefined == [t |-> "undefined", s |-> <<>>, n |-> 0, a |-> <<>>]

Null == [t |-> "null", s |-> <<>>, n |-> 0, a |-> <<>>]

Str(cs) == [t |-> "string", s |-> cs, n |-> 0, a |-> <<>>]

Num(k) == [t |-> "number", s |-> <<>>, n |-> k, a |-> <<>>]

Bool(b) == [t |-> "boolean", s |-> <<>>, n |-> IF b THEN 1 ELSE 0, a |-> <<>>]

Arr(xs) == [t |-> "array", s |-> <<>>, n |-> 0, a |-> xs]

\* obj[key]: a key that is absent reads as undefined.
Get(obj, key) == IF key \in DOMAIN obj THEN obj[key] ELSE Undefined

\* x === y.  An array is an object: it is never identical to a schema literal.
StrictEquals(x, y) == x.t # "array" /\ y.t # "array" /\ x = y

\* !x
Falsy(x) ==
    \/ x.t \in {"undefined", "null"}
    \/ x.t = "string" /\ x.s = <<>>
    \/ x.t = "number" /\ x.n = 0
    \/ x.t = "boolean" /\ x.n = 0

Digits == {"0", "1", "2", "3", "4", "5", "6", "7", "8", "9"}

LowerCase ==
    {"a", "b", "c", "d", "e", "f", "g", "h", "i", "j", "k", "l", "m",
     "n", "o", "p", "q", "r", "s", "t", "u", "v", "w", "x", "y", "z"}

UpperCase ==
    {"A", "B", "C", "D", "E", "F", "G", "H", "I", "J", "K", "L", "M",
     "N", "O", "P", "Q", "R", "S", "T", "U", "V", "W", "X", "Y", "Z"}

\* [A-Za-z]
IsLetter(c) == c \in LowerCase \cup UpperCase

\* \d
IsDigit(c) == c \in Digits

LowerOf ==
    [c \in UpperCase |->
        CASE c = "A" -> "a" [] c = "B" -> "b" [] c = "C" -> "c" [] c = "D" -> "d"
          [] c = "E" -> "e" [] c = "F" -> "f" [] c = "G" -> "g" [] c = "H" -> "h"
          [] c = "I" -> "i" [] c = "J" -> "j" [] c = "K" -> "k" [] c = "L" -> "l"
          [] c = "M" -> "m" [] c = "N" -> "n" [] c = "O" -> "o" [] c = "P" -> "p"
          [] c = "Q" -> "q" [] c = "R" -> "r" [] c = "S" -> "s" [] c = "T" -> "t"
          [] c = "U" -> "u" [] c = "V" -> "v" [] c = "W" -> "w" [] c = "X" -> "x"
          [] c = "Y" -> "y" [] c = "Z" -> "z"]

\* String.prototype.toLowerCase
ToLowerCase(cs) == [i \in DOMAIN cs |-> IF cs[i] \in UpperCase THEN LowerOf[cs[i]] ELSE cs[i]]

\* String.prototype.includes
StringIncludes(cs, sub) ==
    \E k \in 0..(Len(cs) - Len(sub)) : \A i \in 1..Len(sub) : cs[k + i] = sub[i]

\* String.prototype.endsWith
EndsWith(cs, suffix) ==
    /\ Len(suffix) <= Len(cs)
    /\ \A i \in 1..Len(suffix) : cs[Len(cs) - Len(suffix) + i] = suffix[i]

\* String.prototype.trim, on the blank character only
RECURSIVE TrimStart(_)
TrimStart(cs) == IF cs # <<>> /\ Head(cs) = " " THEN TrimStart(Tail(cs)) ELSE cs

RECURSIVE TrimEnd(_)
TrimEnd(cs) ==
    IF cs # <<>> /\ cs[Len(cs)] = " " THEN TrimEnd(SubSeq(cs, 1, Len(cs) - 1)) ELSE cs

Trim(cs) == TrimEnd(TrimStart(cs))

RECURSIVE DigitsOf(_)
DigitsOf(k) ==
    LET d == CHOOSE c \in Digits :
                 c = CASE k % 10 = 0 -> "0" [] k % 10 = 1 -> "1" [] k % 10 = 2 -> "2"
                       [] k % 10 = 3 -> "3" [] k % 10 = 4 -> "4" [] k % 10 = 5 -> "5"
                       [] k % 10 = 6 -> "6" [] k % 10 = 7 -> "7" [] k % 10 = 8 -> "8"
                       [] OTHER -> "9"
    IN  IF k < 10 THEN <<d>> ELSE DigitsOf(k \div 10) \o <<d>>

\* String(x) of a primitive
StringOf(x) ==
    CASE x.t = "string" -> x.s
      [] x.t = "number" -> IF x.n < 0 THEN <<"-">> \o DigitsOf(0 - x.n) ELSE DigitsOf(x.n)
      [] x.t = "boolean" -> IF x.n = 1 THEN <<"t", "r", "u", "e">> ELSE <<"f", "a", "l", "s", "e">>
      [] x.t = "null" -> <<"n", "u", "l", "l">>
      [] OTHER -> <<"u", "n", "d", "e", "f", "i", "n", "e", "d">>

\* Array.prototype.includes
ArrayIncludes(xs, y) == \E i \in DOMAIN xs : StrictEquals(xs[i], y)

(***************************************************************************)
(* ConditionalLogic.  Every optional member is present in the record; an   *)
(* absent member holds the marker next to it.                              *)
(***************************************************************************)
\* formValues[undefined] reads the key "undefined"
NoField == "undefined"

NoOperator == "none"

Leaf(f, op, v) ==
    [field |-> f, operator |-> op, value |-> v, equals |-> Undefined,
     conditions |-> <<>>, logicalOperator |-> NoOperator]

LegacyEquals(f, v) ==
    [field |-> f, operator |-> NoOperator, value |-> Undefined, equals |-> v,
     conditions |-> <<>>, logicalOperator |-> NoOperator]

Composite(lop, cs) ==
    [field |-> NoField, operator |-> NoOperator, value |-> Undefined, equals |-> Undefined,
     conditions |-> cs, logicalOperator |-> lop]

\* A list of conditions that holds as soon as one of them does, unless
\* logicalOperator says "and"
combineOrByDefault(logicalOperator, results) ==
    IF logicalOperator = "and" THEN \A i \in DOMAIN results : results[i]
    ELSE \E i \in DOMAIN results : results[i]

\* results.some(...) for "or", results.every(...) otherwise
combine(logicalOperator, results) ==
    IF logicalOperator = "or" THEN \E i \in DOMAIN results : results[i]
    ELSE \A i \in DOMAIN results : results[i]

\* An equals member that counts only when the condition names no operator
hasLegacyEqualsUnlessOperator(condition) ==
    condition.equals # Undefined /\ condition.operator = NoOperator

\* condition.equals !== undefined
hasLegacyEquals(condition) == condition.equals # Undefined

\* An operator that is not known holds for no value
defaultOperatorNever(fieldValue, value) == FALSE

\* default: return fieldValue === condition.value
defaultOperator(fieldValue, value) == StrictEquals(fieldValue, value)

\* switch (condition.operator)
evaluateOperator(operator, fieldValue, value) ==
    CASE operator = "equals" -> StrictEquals(fieldValue, value)
      [] operator = "notEquals" -> ~StrictEquals(fieldValue, value)
      [] operator = "greaterThan" ->
             fieldValue.t = "number" /\ value.t = "number" /\ fieldValue.n > value.n
      [] operator = "lessThan" ->
             fieldValue.t = "number" /\ value.t = "number" /\ fieldValue.n < value.n
      [] operator = "contains" ->
             IF fieldValue.t = "array"
             THEN ArrayIncludes(fieldValue.a, value)
             ELSE fieldValue.t = "string" /\ StringIncludes(fieldValue.s, StringOf(value))
      [] operator = "notContains" ->
             IF fieldValue.t = "array"
             THEN ~ArrayIncludes(fieldValue.a, value)
             ELSE fieldValue.t = "string" /\ ~StringIncludes(fieldValue.s, StringOf(value))
      [] operator = "isEmpty" ->
             \/ fieldValue.t \in {"undefined", "null"}
             \/ fieldValue = Str(<<>>)
             \/ fieldValue.t = "array" /\ Len(fieldValue.a) = 0
      [] operator = "isNotEmpty" ->
             /\ fieldValue.t \notin {"undefined", "null"}
             /\ fieldValue # Str(<<>>)
             /\ (fieldValue.t # "array" \/ Len(fieldValue.a) > 0)
      [] OTHER -> defaultOperator(fieldValue, value)

RECURSIVE evaluateCondition(_, _)
evaluateCondition(condition, formValues) ==
    IF Len(condition.conditions) > 0
    THEN combine(condition.logicalOperator,
                 [i \in DOMAIN condition.conditions |->
                     evaluateCondition(condition.conditions[i], formValues)])
    ELSE IF hasLegacyEquals(condition)
    THEN StrictEquals(Get(formValues, condition.field), condition.equals)
    ELSE evaluateOperator(condition.operator, Get(formValues, condition.field),
                          condition.value)

(***************************************************************************)
(* The registry of asynchronous validators.  A call settles to "true" or   *)
(* "false", or rejects ("throw").  args[1] is the field's value; a         *)
(* parameter the caller does not pass reads as undefined.                  *)
(***************************************************************************)
Arg(args, i) == IF i \in DOMAIN args THEN args[i] ELSE Undefined

takenUsernames ==
    {<<"a", "d", "m", "i", "n">>, <<"r", "o", "o", "t">>,
     <<"s", "u", "p", "e", "r", "u", "s", "e", "r">>, <<"s", "y", "s", "t", "e", "m">>}

isUsernameAvailable(args) ==
    LET username == Arg(args, 1)
    IN  IF username.t # "string" THEN "throw"
        ELSE IF \E name \in takenUsernames : StringIncludes(ToLowerCase(username.s), name)
        THEN "false" ELSE "true"

validDomains ==
    {<<".", "c", "o", "m">>, <<".", "o", "r", "g">>, <<".", "n", "e", "t">>,
     <<".", "e", "d", "u">>, <<".", "g", "o", "v">>}

\* email.split('@')[1]: what lies between the first '@' and the next one
SplitAt1(cs) ==
    LET first == CHOOSE i \in DOMAIN cs : cs[i] = "@" /\ \A j \in 1..(i - 1) : cs[j] # "@"
        rest == SubSeq(cs, first + 1, Len(cs))
        stop == IF \E i \in DOMAIN rest : rest[i] = "@"
                THEN (CHOOSE i \in DOMAIN rest : rest[i] = "@" /\ \A j \in 1..(i - 1) : rest[j] # "@") - 1
                ELSE Len(rest)
    IN  SubSeq(rest, 1, stop)

isEmailDomainValid(args) ==
    LET email == Arg(args, 1)
    IN  IF Falsy(email) THEN "false"
        ELSE IF email.t # "string" THEN "throw"
        ELSE IF ~StringIncludes(email.s, <<"@">>) THEN "false"
        ELSE IF \E d \in validDomains : EndsWith(SplitAt1(email.s), d) THEN "true" ELSE "false"

\* /^\d{5}(-\d{4})?$/
IsUsZip(cs) ==
    \/ Len(cs) = 5 /\ \A i \in 1..5 : IsDigit(cs[i])
    \/ /\ Len(cs) = 10
       /\ \A i \in 1..5 : IsDigit(cs[i])
       /\ cs[6] = "-"
       /\ \A i \in 7..10 : IsDigit(cs[i])

\* /^[A-Za-z]\d[A-Za-z] \d[A-Za-z]\d$/
IsCaPostal(cs) ==
    /\ Len(cs) = 7
    /\ IsLetter(cs[1]) /\ IsDigit(cs[2]) /\ IsLetter(cs[3])
    /\ cs[4] = " "
    /\ IsDigit(cs[5]) /\ IsLetter(cs[6]) /\ IsDigit(cs[7])

\* /^[A-Za-z]{1,2}\d[A-Za-z\d]? \d[A-Za-z]{2}$/
IsUkPostcode(cs) ==
    \E l \in {1, 2}, o \in {0, 1} :
        /\ Len(cs) = l + 1 + o + 4
        /\ \A i \in 1..l : IsLetter(cs[i])
        /\ IsDigit(cs[l + 1])
        /\ o = 1 => (IsLetter(cs[l + 2]) \/ IsDigit(cs[l + 2]))
        /\ cs[l + o + 2] = " "
        /\ IsDigit(cs[l + o + 3])
        /\ IsLetter(cs[l + o + 4]) /\ IsLetter(cs[l + o + 5])

isPostalCodeValid(args) ==
    LET postalCode == Arg(args, 1)
        country == Arg(args, 2)
        code == StringOf(postalCode)
    IN  IF Falsy(postalCode) THEN "false"
        ELSE IF country.t # "string" THEN "throw"
        ELSE CASE ToLowerCase(country.s) = <<"u", "s">> -> IF IsUsZip(code) THEN "true" ELSE "false"
               [] ToLowerCase(country.s) = <<"c", "a">> -> IF IsCaPostal(code) THEN "true" ELSE "false"
               [] ToLowerCase(country.s) = <<"u", "k">> -> IF IsUkPostcode(code) THEN "true" ELSE "false"
               [] OTHER -> IF postalCode.t # "string" THEN "throw"
                           ELSE IF Len(Trim(postalCode.s)) > 0 THEN "true" ELSE "false"

asyncValidatorNames == {"isUsernameAvailable", "isEmailDomainValid", "isPostalCodeValid"}

asyncValidators(name, args) ==
    CASE name = "isUsernameAvailable" -> isUsernameAvailable(args)
      [] name = "isEmailDomainValid" -> isEmailDomainValid(args)
      [] name = "isPostalCodeValid" -> isPostalCodeValid(args)

(***************************************************************************)
(* The registry of cross-field validators of DynamicFormGenerator.         *)
(* dateRangeValid compares two Date objects; no schema of this model names *)
(* it, and it is left out of the registry's model.                         *)
(***************************************************************************)
customValidatorNames == {"passwordsMatch"}

passwordsMatch(data, fields) ==
    IF Len(fields) # 2 THEN FALSE
    ELSE StrictEquals(Get(data, fields[1]), Get(data, fields[2]))

customValidators(name, data, fields) ==
    CASE name = "passwordsMatch" -> passwordsMatch(data, fields)

(***************************************************************************)
(* FormField and FormSchema.  An absent optional member holds a neutral    *)
(* value: 0 for the lengths and "" for the strings, which the code's       *)
(* truthiness tests skip, Undefined for min and max.                       *)
(***************************************************************************)
Field(name, type) ==
    [name |-> name, type |-> type, required |-> FALSE,
     minLength |-> 0, maxLength |-> 0, min |-> Undefined, max |-> Undefined,
     pattern |-> "", errorMessage |-> "",
     hasCustomValidator |-> FALSE, customValidator |-> [fields |-> <<>>, validator |-> ""],
     hasAsyncValidator |-> FALSE, asyncValidator |-> [name |-> "", params |-> <<>>],
     hasConditional |-> FALSE, conditional |-> Leaf(NoField, NoOperator, Undefined)]

Required(f) == [f EXCEPT !.required = TRUE]

WithMessage(f, m) == [f EXCEPT !.errorMessage = m]

WithConditional(f, c) == [f EXCEPT !.hasConditional = TRUE, !.conditional = c]

WithAsync(f, name, params) ==
    [f EXCEPT !.hasAsyncValidator = TRUE, !.asyncValidator = [name |-> name, params |-> params]]

WithCustom(f, fields, validator) ==
    [f EXCEPT !.hasCustomValidator = TRUE,
              !.customValidator = [fields |-> fields, validator |-> validator]]

Section(title, fields) == [title |-> title, fields |-> fields]

Sectioned(sections) ==
    [hasFields |-> FALSE, fields |-> <<>>, hasSections |-> TRUE, sections |-> sections]

Flat(fields) ==
    [hasFields |-> TRUE, fields |-> fields, hasSections |-> FALSE, sections |-> <<>>]

RECURSIVE FlatMapFields(_)
FlatMapFields(sections) ==
    IF sections = <<>> THEN <<>> ELSE Head(sections).fields \o FlatMapFields(Tail(sections))

getAllFields(sch) ==
    IF sch.hasFields THEN sch.fields
    ELSE IF sch.hasSections THEN FlatMapFields(sch.sections)
    ELSE <<>>

(***************************************************************************)
(* The ruleset compiled by zodSchema, as the outcome of parsing a value    *)
(* snapshot with it.  An issue is a path and a message; react-hook-form    *)
(* keeps, per path, the first issue, and calls onSubmit only when there is *)
(* none.                                                                   *)
(***************************************************************************)
DigitText(d) ==
    CASE d = 0 -> "0" [] d = 1 -> "1" [] d = 2 -> "2" [] d = 3 -> "3" [] d = 4 -> "4"
      [] d = 5 -> "5" [] d = 6 -> "6" [] d = 7 -> "7" [] d = 8 -> "8" [] OTHER -> "9"

RECURSIVE NumText(_)
NumText(k) ==
    IF k < 0 THEN "-" \o NumText(0 - k)
    ELSE IF k < 10 THEN DigitText(k)
    ELSE NumText(k \div 10) \o DigitText(k % 10)

Or(message, default) == IF message # "" THEN message ELSE default

Issue(path, message) == [path |-> path, message |-> message]

\* new RegExp(pattern).test(cs), for the patterns the schemas of this model use
RegExpTest(pattern, cs) ==
    CASE pattern = "^[0-9]+$" -> Len(cs) > 0 /\ \A i \in DOMAIN cs : IsDigit(cs[i])

ExpectedType(type) ==
    CASE type = "number" -> "number"
      [] type = "boolean" -> "boolean"
      [] type \in {"dropzone", "multiselect"} -> "array"
      [] OTHER -> "string"

RECURSIVE ElementIssues(_, _, _)
ElementIssues(name, xs, i) ==
    IF i > Len(xs) THEN <<>>
    ELSE (IF xs[i].t # "string"
          THEN <<Issue(<<name, NumText(i - 1)>>, "Expected string, received " \o xs[i].t)>>
          ELSE <<>>)
         \o ElementIssues(name, xs, i + 1)

\* The issues of z.string(), z.number(), z.boolean(), z.array(...) on a value of
\* another type: the parse of the field is aborted.
TypeIssues(field, val) ==
    IF val.t # ExpectedType(field.type)
    THEN <<Issue(<<field.name>>, "Expected " \o ExpectedType(field.type) \o ", received " \o val.t)>>
    ELSE IF field.type = "multiselect"
    THEN ElementIssues(field.name, val.a, 1)
    ELSE <<>>

LengthChecks(field, val) ==
    (IF field.minLength # 0 /\ Len(val.s) < field.minLength
     THEN <<Issue(<<field.name>>, Or(field.errorMessage,
                "Must be at least " \o NumText(field.minLength) \o " characters"))>>
     ELSE <<>>)
    \o
    (IF field.maxLength # 0 /\ Len(val.s) > field.maxLength
     THEN <<Issue(<<field.name>>, Or(field.errorMessage,
                "Must be at most " \o NumText(field.maxLength) \o " characters"))>>
     ELSE <<>>)

PatternCheck(field, val) ==
    IF field.pattern # "" /\ ~RegExpTest(field.pattern, val.s)
    THEN <<Issue(<<field.name>>, Or(field.errorMessage, "Invalid format"))>>
    ELSE <<>>

RangeChecks(field, val) ==
    (IF field.min # Undefined /\ val.n < field.min.n
     THEN <<Issue(<<field.name>>, Or(field.errorMessage, "Must be at least " \o NumText(field.min.n)))>>
     ELSE <<>>)
    \o
    (IF field.max # Undefined /\ val.n > field.max.n
     THEN <<Issue(<<field.name>>, Or(field.errorMessage, "Must be at most " \o NumText(field.max.n)))>>
     ELSE <<>>)

\* params.map(paramField => ''): one empty string per companion field
RECURSIVE paramValues(_)
paramValues(params) ==
    IF params = <<>> THEN <<>> ELSE <<Str(<<>>)>> \o paramValues(Tail(params))

\* A refine that lets the value through whatever the validator settles to
asyncRefineFailOpen(field, val) ==
    IF Falsy(val) THEN [calls |-> <<>>, pass |-> TRUE]
    ELSE [calls |-> <<[field |-> field.name, name |-> field.asyncValidator.name,
                       args |-> <<val>> \o paramValues(field.asyncValidator.params)]>>,
          pass |-> TRUE]

\* A refine whose catch lets the value through
asyncRefineCatchPasses(field, val) ==
    IF Falsy(val) THEN [calls |-> <<>>, pass |-> TRUE]
    ELSE LET args == <<val>> \o paramValues(field.asyncValidator.params)
             settled == asyncValidators(field.asyncValidator.name, args)
         IN  [calls |-> <<[field |-> field.name, name |-> field.asyncValidator.name,
                            args |-> args]>>,
              pass |-> IF settled = "throw" THEN TRUE ELSE settled = "true"]

\* The refine attached to a "string" field whose asyncValidator is registered:
\* the calls it makes and whether it passes.
asyncRefine(field, val) ==
    IF Falsy(val) THEN [calls |-> <<>>, pass |-> TRUE]
    ELSE LET args == <<val>> \o paramValues(field.asyncValidator.params)
             settled == asyncValidators(field.asyncValidator.name, args)
         IN  [calls |-> <<[field |-> field.name, name |-> field.asyncValidator.name,
                            args |-> args]>>,
              pass |-> IF settled = "throw" THEN FALSE ELSE settled = "true"]

HasAsyncRefine(field) ==
    /\ field.type = "string"
    /\ field.hasAsyncValidator
    /\ field.asyncValidator.name \in asyncValidatorNames

\* A required refine that takes the empty string for a value
requiredRefineLoose(field, val) ==
    IF field.type \in {"dropzone", "multiselect"}
    THEN val # Undefined /\ val # Null /\ Len(val.a) > 0
    ELSE val # Undefined /\ val # Null

\* The predicate of the refine that a required field adds
requiredRefine(field, val) ==
    IF field.type \in {"number", "boolean"}
    THEN val # Undefined /\ val # Null
    ELSE IF field.type \in {"dropzone", "multiselect"}
    THEN val # Undefined /\ val # Null /\ Len(val.a) > 0
    ELSE val # Undefined /\ val # Null /\ val # Str(<<>>)

requiredMessage(field) ==
    Or(field.errorMessage,
       CASE field.type = "dropzone" -> "At least one file is required"
         [] field.type = "signature" -> "Signature is required"
         [] OTHER -> "This field is required")

RequiredIssues(field, val) ==
    IF field.required /\ ~requiredRefine(field, val)
    THEN <<Issue(<<field.name>>, requiredMessage(field))>>
    ELSE <<>>

\* The checks chained on the base type of the field
TypeChecks(field, val) ==
    CASE field.type = "string" -> LengthChecks(field, val) \o PatternCheck(field, val)
      [] field.type = "textarea" -> LengthChecks(field, val)
      [] field.type = "number" -> RangeChecks(field, val)
      [] OTHER -> <<>>

AsyncIssues(field, async) ==
    IF async.pass THEN <<>>
    ELSE <<Issue(<<field.name>>, Or(field.errorMessage, "Validation failed for " \o field.name))>>

\* A value of the right type: the chained checks, the async refine, then the
\* required refine around them
CheckedField(field, val, async) ==
    [issues |-> TypeChecks(field, val) \o AsyncIssues(field, async) \o RequiredIssues(field, val),
     aborted |-> FALSE, calls |-> async.calls]

TypedField(field, val, typeIssues) ==
    IF typeIssues # <<>>
    THEN [issues |-> typeIssues, aborted |-> TRUE, calls |-> <<>>]
    ELSE CheckedField(field, val,
             IF HasAsyncRefine(field) THEN asyncRefine(field, val)
             ELSE [calls |-> <<>>, pass |-> TRUE])

\* schemaObj[field.name] applied to the value val of the field: optional()
\* lets undefined through to the required refine
ParseValue(field, val) ==
    IF val = Undefined
    THEN [issues |-> RequiredIssues(field, val), aborted |-> FALSE, calls |-> <<>>]
    ELSE TypedField(field, val, TypeIssues(field, val))

ParseField(field, data) == ParseValue(field, Get(data, field.name))

\* crossFieldValidations: one entry per field that declares customValidator
RECURSIVE crossFieldValidations(_)
crossFieldValidations(fields) ==
    IF fields = <<>> THEN <<>>
    ELSE (IF Head(fields).hasCustomValidator
          THEN <<[fields |-> Head(fields).customValidator.fields,
                  validator |-> Head(fields).customValidator.validator,
                  errorMessage |-> Or(Head(fields).errorMessage,
                                      "Validation failed for " \o Head(fields).name)]>>
          ELSE <<>>)
         \o crossFieldValidations(Tail(fields))

\* crossFieldValidations.map(v => v.errorMessage).join('; ')
RECURSIVE JoinMessages(_)
JoinMessages(vs) ==
    IF vs = <<>> THEN ""
    ELSE IF Len(vs) = 1 THEN vs[1].errorMessage
    ELSE vs[1].errorMessage \o "; " \o JoinMessages(Tail(vs))

\* crossFieldValidations.flatMap(v => v.fields)
RECURSIVE crossFieldPath(_)
crossFieldPath(vs) ==
    IF vs = <<>> THEN <<>> ELSE Head(vs).fields \o crossFieldPath(Tail(vs))

\* A cross-field check that fails when the registry lacks the validator
crossFieldPassesFailClosed(validation, data) ==
    IF validation.validator \notin customValidatorNames THEN FALSE
    ELSE customValidators(validation.validator, data, validation.fields)

crossFieldPasses(validation, data) ==
    IF validation.validator \notin customValidatorNames THEN TRUE
    ELSE customValidators(validation.validator, data, validation.fields)

\* schemaObj keeps, for a name declared twice, the rule of the last declaration
ShapeFields(fields) ==
    SelectSeq([i \in DOMAIN fields |->
                  [f |-> fields[i],
                   last |-> \A j \in DOMAIN fields : j > i => fields[j].name # fields[i].name]],
              LAMBDA e : e.last)

Concat(head, rest) ==
    [issues |-> head.issues \o rest.issues,
     aborted |-> head.aborted \/ rest.aborted,
     calls |-> head.calls \o rest.calls]

RECURSIVE ParseShape(_, _)
ParseShape(shape, data) ==
    IF shape = <<>> THEN [issues |-> <<>>, aborted |-> FALSE, calls |-> <<>>]
    ELSE Concat(ParseField(Head(shape).f, data), ParseShape(Tail(shape), data))

\* The object z.object(schemaObj) yields: unknown keys are stripped
ParsedObject(shape, data) ==
    [k \in {shape[i].f.name : i \in DOMAIN shape} \cap DOMAIN data |-> data[k]]

\* schema.refine(...): skipped when the object's parse was aborted
crossFieldRefine(cross, aborted, parsed) ==
    IF Len(cross) > 0 /\ ~aborted
       /\ ~(\A i \in DOMAIN cross : crossFieldPasses(cross[i], parsed))
    THEN <<Issue(crossFieldPath(cross), JoinMessages(cross))>>
    ELSE <<>>

Outcome(issues, aborted, parsed, calls) ==
    [issues |-> issues, valid |-> issues = <<>>, aborted |-> aborted, data |-> parsed,
     calls |-> calls]

Refined(object, cross, parsed) ==
    Outcome(object.issues \o crossFieldRefine(cross, object.aborted, parsed), object.aborted,
            parsed, object.calls)

ParseObject(shape, cross, data) ==
    Refined(ParseShape(shape, data), cross, ParsedObject(shape, data))

\* zodSchema.parseAsync(data) for the schema sch: the issues, the parsed object
\* and the asynchronous validator calls made on the way.
zodSchema(sch, data) ==
    ParseObject(ShapeFields(getAllFields(sch)), crossFieldValidations(getAllFields(sch)), data)

\* errors[name].message after toNestErrors: the first issue whose path is the name
HasErrorAt(issues, name) == \E i \in DOMAIN issues : issues[i].path = <<name>>

ErrorAt(issues, name) ==
    issues[CHOOSE i \in DOMAIN issues :
               /\ issues[i].path = <<name>>
               /\ \A j \in 1..(i - 1) : issues[j].path # <<name>>].message

(***************************************************************************)
(* The schemas the model runs, and the values a user enters in each field. *)
(***************************************************************************)
domestic == <<"d", "o", "m", "e", "s", "t", "i", "c">>

international == <<"i", "n", "t", "e", "r", "n", "a", "t", "i", "o", "n", "a", "l">>

\* country is required and shown unless shipTo is "domestic"
SchemaShip ==
    Sectioned(<<
        Section("Shipping", <<
            Field("shipTo", "radio"),
            Required(WithConditional(Field("country", "string"),
                                     Leaf("shipTo", "notEquals", Str(domestic))))>>),
        Section("Contact", <<
            Required(Field("phone", "string"))>>)>>)

\* note is optional and shown when gift is "yes"
SchemaGift ==
    Sectioned(<<
        Section("Gift", <<
            Field("gift", "radio"),
            WithConditional(Field("note", "textarea"), LegacyEquals("gift", Str(<<"y", "e", "s">>)))>>),
        Section("Contact", <<
            Required(Field("phone", "string"))>>)>>)

\* customsCode, on the second step, is shown unless shipTo, on the first, is "domestic"
SchemaCustoms ==
    Sectioned(<<
        Section("Destination", <<
            Field("shipTo", "radio")>>),
        Section("Customs", <<
            WithConditional(Required(Field("customsCode", "string")),
                            Leaf("shipTo", "notEquals", Str(domestic)))>>)>>)

\* one section: username is checked remotely, confirm must repeat password
SchemaAccount ==
    Sectioned(<<
        Section("Account", <<
            WithMessage(WithAsync(Required(Field("username", "string")), "isUsernameAvailable", <<>>),
                        "Username is taken"),
            Field("password", "string"),
            WithMessage(WithCustom(Field("confirm", "string"), <<"password", "confirm">>,
                                   "passwordsMatch"),
                        "Passwords must match")>>)>>)

\* postalCode is checked remotely against the country chosen on the step before
SchemaPostal ==
    Sectioned(<<
        Section("Country", <<
            Required(Field("country", "string"))>>),
        Section("Address", <<
            WithMessage(WithAsync(Field("postalCode", "string"), "isPostalCodeValid", <<"country">>),
                        "Invalid postal code")>>)>>)

\* both sections declare email
SchemaContact ==
    Sectioned(<<
        Section("Sign up", <<
            Required(Field("email", "string"))>>),
        Section("Contact", <<
            Field("email", "string"),
            Field("phone", "string")>>)>>)

\* card is shown while note, itself shown when gift is "yes", has a value
SchemaChain ==
    Sectioned(<<
        Section("Gift", <<
            Field("gift", "radio"),
            WithConditional(Field("note", "textarea"), LegacyEquals("gift", Str(<<"y", "e", "s">>))),
            WithConditional(Field("card", "string"), Leaf("note", "isNotEmpty", Undefined))>>)>>)

\* neither isNicknameFree nor aliasDiffers is in a registry
SchemaProfile ==
    Sectioned(<<
        Section("Profile", <<
            [WithAsync(Required(Field("nickname", "string")), "isNicknameFree", <<>>)
                EXCEPT !.minLength = 3],
            WithCustom(Field("alias", "string"), <<"nickname", "alias">>, "aliasDiffers")>>)>>)

\* isPostalCodeValid is handed the postal code alone
SchemaZip ==
    Sectioned(<<
        Section("Address", <<
            Field("city", "string"),
            WithAsync(Field("zip", "string"), "isPostalCodeValid", <<>>)>>)>>)

\* no sections: the fields are declared on the schema itself
SchemaFlat == Flat(<<Required(Field("name", "string")), Field("phone", "string")>>)

\* promo is shown while it is empty itself; left and right are each shown
\* while the other is empty
SchemaLoop ==
    Sectioned(<<
        Section("Extras", <<
            WithConditional(Field("promo", "string"), Leaf("promo", "isEmpty", Undefined)),
            WithConditional(Field("left", "string"), Leaf("right", "isEmpty", Undefined)),
            WithConditional(Field("right", "string"), Leaf("left", "isEmpty", Undefined))>>)>>)

Schemas ==
    {SchemaShip, SchemaGift, SchemaCustoms, SchemaAccount, SchemaPostal, SchemaContact,
     SchemaChain, SchemaProfile, SchemaZip, SchemaFlat, SchemaLoop}

Samples(name) ==
    CASE name = "shipTo" -> {Str(domestic), Str(international)}
      [] name = "country" -> {Str(<<"u", "s">>), Str(<<"c", "a">>)}
      [] name = "phone" -> {Str(<<"5", "5", "5">>)}
      [] name = "gift" -> {Str(<<"y", "e", "s">>), Str(<<"n", "o">>)}
      [] name = "note" -> {Str(<<"h", "i">>)}
      [] name = "username" -> {Str(<<"a", "d", "m", "i", "n">>), Str(<<"a", "l", "i", "c", "e">>)}
      [] name = "password" -> {Str(<<"p">>)}
      [] name = "confirm" -> {Str(<<"p">>), Str(<<"q">>)}
      [] name = "postalCode" -> {Str(<<"1", "2", "3", "4", "5">>),
                                 Str(<<"K", "1", "A", " ", "0", "B", "1">>)}
      [] name = "customsCode" -> {Str(<<"H", "S", "1">>)}
      [] name = "card" -> {Str(<<"c", "1">>)}
      [] name = "promo" -> {Str(<<"P", "1">>)}
      [] name = "left" -> {Str(<<"l">>)}
      [] name = "right" -> {Str(<<"r">>)}
      [] name = "name" -> {Str(<<"A", "n", "n">>)}
      [] name = "nickname" -> {Str(<<"a", "d", "m", "i", "n">>), Str(<<"a", "b">>)}
      [] name = "alias" -> {Str(<<"a", "d", "m", "i", "n">>)}
      [] name = "city" -> {Str(<<"O", "s", "l", "o">>)}
      [] name = "zip" -> {Str(<<"1", "2", "3", "4", "5">>)}
      [] name = "email" -> {Str(<<"a", "@", "x", ".", "o", "r", "g">>),
                            Str(<<"b", "@", "x", ".", "o", "r", "g">>)}

\* Validation passes that may wait on a remote validator at the same time
MaxPending == 2

\* Terminal submits a run follows
MaxEmitted == 2

\* Steps a run follows before it stops submitting
MaxStep == 3

(***************************************************************************)
(* State.                                                                  *)
(*   schema             the schema prop of MultiStepForm                   *)
(*   currentStep        MultiStepForm state                                *)
(*   formData           MultiStepForm state: the cumulative result         *)
(*   values             the value snapshot of the form                     *)
(*   conditionalFields  DynamicFormGenerator state: the visibility map     *)
(*   phase              "effect" while a render has committed and its      *)
(*                      effects have not run yet, "idle" otherwise         *)
(*   pending            validation passes waiting on a remote validator,   *)
(*                      oldest first, each with the snapshot it reads and  *)
(*                      the closure of the render that started it          *)
(*   emitted            how often the terminal submit was performed        *)
(*   lastPass           what the validation pass that completed in the     *)
(*                      last step saw and produced (NoPass otherwise)      *)
(*   lastRender         what the render of the last step did               *)
(*   trail              the data handed to handleStepSubmit so far, while  *)
(*                      the steps were submitted in order 0, 1, ...        *)
(*   probe              the input and the result of one application of     *)
(*                      evaluateCondition or of a compiled field rule      *)
(*                      (NoProbe while the form runs)                      *)
(***************************************************************************)
VARIABLES schema, currentStep, formData, values, conditionalFields, phase,
          pending, emitted, lastPass, lastRender, trail, probe

vars == <<schema, currentStep, formData, values, conditionalFields, phase,
          pending, emitted, lastPass, lastRender, trail, probe>>

EmptyObject == [k \in {} |-> Undefined]

\* { ...a, ...b }
Spread(a, b) == [k \in DOMAIN a \cup DOMAIN b |-> IF k \in DOMAIN b THEN b[k] ELSE a[k]]

\* unset(_formValues, name)
Unset(obj, name) == [k \in DOMAIN obj \ {name} |-> obj[k]]

\* field.onChange(v)
SetValue(obj, name, v) == [k \in DOMAIN obj \cup {name} |-> IF k = name THEN v ELSE obj[k]]

\* const sections = schema.sections || []
sections(sch) == IF sch.hasSections THEN sch.sections ELSE <<>>

\* A step schema that is the whole schema, whatever the step
getCurrentStepSchemaWhole(sch, step) == sch

getCurrentStepSchema(sch, step) ==
    IF Len(sections(sch)) = 0 THEN sch
    ELSE Sectioned(<<sections(sch)[step + 1]>>)

StepFields(step) == getAllFields(getCurrentStepSchema(schema, step))

\* renderFormField returns null for a conditional field the map does not hold true
Shown(map, field) == ~field.hasConditional \/ (field.name \in DOMAIN map /\ map[field.name])

\* The callback of form.watch: the map it hands to setConditionalFields
newConditionalFields(fields, formValues) ==
    LET idx == {i \in DOMAIN fields : fields[i].hasConditional}
        last(name) == CHOOSE i \in idx :
                          fields[i].name = name /\ \A j \in idx : fields[j].name = name => j <= i
    IN  [name \in {fields[i].name : i \in idx} |->
            evaluateCondition(fields[last(name)].conditional, formValues)]

\* A comparison that finds every recomputed map different
hasChangedAlways(prevFields, new) == TRUE

hasChanged(prevFields, new) ==
    \E key \in DOMAIN new : key \notin DOMAIN prevFields \/ prevFields[key] # new[key]

setConditionalFields(prevFields, new) == IF hasChanged(prevFields, new) THEN new ELSE prevFields

\* form.unregister(name, { keepValue: false })
unregister(formValues, name) == Unset(formValues, name)

\* The unregister effect: every conditional field the rendered map does not
\* hold true is unregistered in turn, and each unregister notifies the watcher.
RECURSIVE unregisterEach(_, _, _, _)
unregisterEach(fields, i, rendered, st) ==
    IF i > Len(fields) THEN st
    ELSE IF fields[i].hasConditional /\ ~Shown(rendered, fields[i])
    THEN LET vals == unregister(st.values, fields[i].name)
             new == newConditionalFields(fields, vals)
         IN  unregisterEach(fields, i + 1, rendered,
                 [values |-> vals,
                  map |-> setConditionalFields(st.map, new),
                  changed |-> st.changed \/ hasChanged(st.map, new)])
    ELSE unregisterEach(fields, i + 1, rendered, st)

\* customValidators is an object literal of the component body: every render
\* makes a new one
customValidatorsIsNew == TRUE

\* useMemo(..., [getAllFields, customValidators]); getAllFields follows schema
zodSchemaRecomputed(schemaChanged) == schemaChanged \/ customValidatorsIsNew

Render(schemaChanged) ==
    [rendered |-> TRUE, schemaChanged |-> schemaChanged,
     recompiled |-> zodSchemaRecomputed(schemaChanged)]

NoRender == [rendered |-> FALSE, schemaChanged |-> FALSE, recompiled |-> FALSE]

NoPass == [done |-> FALSE]

NoProbe == [kind |-> "none"]

\* A render of MultiStepForm hands DynamicFormGenerator a new schema object
\* when the schema has sections, and the same one when it is flat.
ParentRenderChangesSchema == Len(sections(schema)) # 0

\* A merge in which the keys already collected win
updatedFormDataKeepFirst(closureFormData, data) == Spread(data, closureFormData)

\* const updatedFormData = { ...formData, ...data }
updatedFormData(closureFormData, data) == Spread(closureFormData, data)

isLastStep(step) == step = Len(sections(schema)) - 1

\* A Previous that leaves the step where it is
handlePrevStepStay(step) == step

handlePrevStep(step) == IF step > 0 THEN step - 1 ELSE step

Init ==
    /\ schema \in Schemas
    /\ currentStep = 0
    /\ formData = EmptyObject
    /\ values = EmptyObject
    /\ conditionalFields = EmptyObject
    /\ phase = "effect"
    /\ pending = <<>>
    /\ emitted = 0
    /\ lastPass = NoPass
    /\ lastRender = Render(TRUE)
    /\ trail = [ok |-> TRUE, data |-> <<>>]
    /\ probe = NoProbe

\* setConditionalFields(prev => ...) and the render it causes when the map changes
Publish(new) ==
    /\ conditionalFields' = setConditionalFields(conditionalFields, new)
    /\ IF hasChanged(conditionalFields, new)
       THEN phase' = "effect" /\ lastRender' = Render(FALSE)
       ELSE phase' = "idle" /\ lastRender' = NoRender

Changed(fields, vals) ==
    /\ values' = vals
    /\ Publish(newConditionalFields(fields, vals))

EditOn(fields) ==
    \E i \in DOMAIN fields :
        /\ Shown(conditionalFields, fields[i])
        /\ \E v \in Samples(fields[i].name) :
             /\ Get(values, fields[i].name) # v
             /\ Changed(fields, SetValue(values, fields[i].name, v))

\* The user edits a field that is on screen.
ChangeValue ==
    /\ phase = "idle"
    /\ EditOn(StepFields(currentStep))
    /\ lastPass' = NoPass
    /\ UNCHANGED <<schema, currentStep, formData, pending, emitted, trail, probe>>

\* Effects after which a render is always due
EffectsAlwaysRender(st) ==
    /\ values' = st.values
    /\ conditionalFields' = st.map
    /\ phase' = "effect"
    /\ lastRender' = Render(FALSE)

Effects(st) ==
    /\ values' = st.values
    /\ conditionalFields' = st.map
    /\ IF st.changed
       THEN phase' = "effect" /\ lastRender' = Render(FALSE)
       ELSE phase' = "idle" /\ lastRender' = NoRender

\* The effects of the render that has just committed.
RunEffects ==
    /\ phase = "effect"
    /\ Effects(unregisterEach(StepFields(currentStep), 1, conditionalFields,
                   [values |-> values, map |-> conditionalFields, changed |-> FALSE]))
    /\ lastPass' = NoPass
    /\ UNCHANGED <<schema, currentStep, formData, pending, emitted, trail, probe>>

\* handleStepSubmit(data) of the render whose state was (closureData, step)
handleStepSubmit(data, closureData, step) ==
    /\ formData' = updatedFormData(closureData, data)
    /\ currentStep' = IF isLastStep(step) THEN currentStep ELSE step + 1
    /\ emitted' = IF isLastStep(step) THEN emitted + 1 ELSE emitted
    /\ trail' = IF trail.ok /\ step = Len(trail.data)
                THEN [ok |-> TRUE, data |-> Append(trail.data, data)]
                ELSE [ok |-> FALSE, data |-> <<>>]
    /\ phase' = IF ParentRenderChangesSchema THEN "effect" ELSE phase
    /\ lastRender' = Render(ParentRenderChangesSchema)

Completed(p, outcome) ==
    /\ lastPass' = [done |-> TRUE, step |-> p.step, vals |-> p.vals, hidden |-> p.hidden,
                    issues |-> outcome.issues, valid |-> outcome.valid,
                    aborted |-> outcome.aborted,
                    calls |-> outcome.calls, data |-> outcome.data,
                    terminal |-> outcome.valid /\ isLastStep(p.step),
                    payload |-> updatedFormData(p.formData, outcome.data)]
    /\ IF outcome.valid
       THEN handleStepSubmit(outcome.data, p.formData, p.step)
       ELSE /\ UNCHANGED <<formData, currentStep, emitted, trail, phase>>
            /\ lastRender' = NoRender
    /\ UNCHANGED <<schema, values, conditionalFields, probe>>

\* A validation pass has completed: handleSubmit calls onSubmit, and with it
\* handleStepSubmit of the render that started the pass, when no issue is left.
Complete(p) == Completed(p, zodSchema(getCurrentStepSchema(schema, p.step), p.vals))

HiddenOf(fields) ==
    {fields[i].name : i \in {j \in DOMAIN fields : ~Shown(conditionalFields, fields[j])}}

\* What a pass started now reads and closes over
Started ==
    [vals |-> values, step |-> currentStep, formData |-> formData,
     hidden |-> HiddenOf(StepFields(currentStep))]

CallsRemote(p) == zodSchema(getCurrentStepSchema(schema, p.step), p.vals).calls # <<>>

\* Submit, no remote validator is called: the pass completes at once.
Submit ==
    /\ phase = "idle"
    /\ emitted < MaxEmitted
    /\ currentStep < MaxStep
    /\ ~CallsRemote(Started)
    /\ Complete(Started)
    /\ UNCHANGED pending

\* Submit, a remote validator is called: the pass waits for it.
SubmitStart ==
    /\ phase = "idle"
    /\ emitted < MaxEmitted
    /\ currentStep < MaxStep
    /\ Len(pending) < MaxPending
    /\ CallsRemote(Started)
    /\ pending' = Append(pending, Started)
    /\ lastPass' = NoPass
    /\ lastRender' = NoRender
    /\ UNCHANGED <<schema, currentStep, formData, values, conditionalFields, phase,
                   emitted, trail, probe>>

\* The remote validators of the oldest waiting pass have settled.
SubmitResolve ==
    /\ phase = "idle"
    /\ pending # <<>>
    /\ emitted < MaxEmitted
    /\ Complete(Head(pending))
    /\ pending' = Tail(pending)

\* Previous
PrevStep ==
    /\ phase = "idle"
    /\ currentStep' = handlePrevStep(currentStep)
    /\ IF currentStep' # currentStep
       THEN /\ phase' = IF ParentRenderChangesSchema THEN "effect" ELSE phase
            /\ lastRender' = Render(ParentRenderChangesSchema)
            /\ trail' = [ok |-> FALSE, data |-> <<>>]
       ELSE UNCHANGED <<phase, trail>> /\ lastRender' = NoRender
    /\ lastPass' = NoPass
    /\ UNCHANGED <<schema, formData, values, conditionalFields, pending, emitted, probe>>

Next == ChangeValue \/ RunEffects \/ Submit \/ SubmitStart \/ SubmitResolve \/ PrevStep

Spec == Init /\ [][Next]_vars

\* React runs the effects of every render it commits
SpecLive == Spec /\ WF_vars(RunEffects)

(***************************************************************************)
(* One application of a pure part of the engine to an input drawn from a   *)
(* bounded set: evaluateCondition on a condition tree and a snapshot, and  *)
(* the rule compiled for one field on a value.                             *)
(***************************************************************************)
Operators ==
    {"equals", "notEquals", "greaterThan", "lessThan", "contains", "notContains",
     "isEmpty", "isNotEmpty"}

\* The operator member of a leaf: a known one, none, or one the switch does
\* not know
LeafOperators == Operators \cup {NoOperator, "matches"}

LeafOperands == {Undefined, Str(<<"x">>), Num(1), Bool(TRUE)}

\* The field member of a leaf: the name of a field, or none
LeafFields == {"a", NoField}

LeafConditions ==
    {[Leaf(f, op, v) EXCEPT !.equals = e] :
        f \in LeafFields, op \in LeafOperators, v \in LeafOperands, e \in LeafOperands}

\* What the snapshot holds for the field a leaf reads
FieldValues ==
    {Undefined, Null, Str(<<>>), Str(<<"x">>), Str(<<"x", "y">>), Num(1), Num(2),
     Bool(TRUE), Arr(<<>>), Arr(<<Str(<<"x">>)>>)}

LeafSnapshots == {EmptyObject} \cup {[k \in {"a"} |-> v] : v \in FieldValues}

LogicalOperators == {"or", "and", NoOperator}

\* The leaves the composite conditions are built from
ChildLeaves ==
    {Leaf("a", "equals", Str(<<"x">>)), Leaf("b", "isEmpty", Undefined),
     Leaf("b", "greaterThan", Num(1))}

Lists(S) == {<<c>> : c \in S} \cup {<<c, d>> : c \in S, d \in S}

FlatComposites == {Composite(lop, cs) : lop \in LogicalOperators, cs \in Lists(ChildLeaves)}

InnerComposites ==
    {Composite(lop, <<Leaf("a", "equals", Str(<<"x">>)), Leaf("b", "isEmpty", Undefined)>>) :
        lop \in LogicalOperators}

NestedComposites ==
    {Composite(lop, <<c, d>>) :
        lop \in LogicalOperators,
        c \in ChildLeaves \cup InnerComposites, d \in InnerComposites}

CompositeSnapshots ==
    {[k \in ks |-> IF k = "a" THEN va ELSE vb] :
        ks \in SUBSET {"a", "b"}, va \in {Str(<<"x">>), Str(<<"x", "y">>)},
        vb \in {Num(1), Num(2)}}

ConditionProbes ==
    {[kind |-> "condition", condition |-> c, formValues |-> vals, done |-> FALSE,
      result |-> FALSE] : c \in LeafConditions, vals \in LeafSnapshots}
    \cup
    {[kind |-> "condition", condition |-> c, formValues |-> vals, done |-> FALSE,
      result |-> FALSE] :
        c \in FlatComposites \cup NestedComposites, vals \in CompositeSnapshots}

\* Type tags the switch of zodSchema has no case for
UnknownTypes == {"color", "rating"}

RuleFields ==
    {[Field("extra", type) EXCEPT !.required = required, !.errorMessage = message,
                                  !.minLength = minLength] :
        type \in UnknownTypes, required \in BOOLEAN, message \in {"", "Pick one"},
        minLength \in {0, 3}}

RuleValues == {Undefined, Null, Str(<<>>), Str(<<" ">>), Str(<<"x">>), Str(<<"x", "y", "z">>)}

FieldTypes ==
    {"string", "number", "boolean", "date", "radio", "textarea", "file", "multiselect",
     "dropzone", "signature"}

\* A file as the picker hands it over
FileWithPreview(name) == [t |-> "object", s |-> name, n |-> 0, a |-> <<>>]

\* What the widget of a type hands to formField.onChange when the user has
\* entered something
WidgetValues(type) ==
    CASE type = "number" -> {Num(0), Num(2)}
      [] type = "boolean" -> {Bool(TRUE), Bool(FALSE)}
      [] type \in {"file", "dropzone"} ->
             {Arr(<<FileWithPreview(<<"a">>)>>),
              Arr(<<FileWithPreview(<<"a">>), FileWithPreview(<<"b">>)>>)}
      [] type = "multiselect" -> {Arr(<<Str(<<"x">>)>>), Arr(<<Str(<<"x">>), Str(<<"y">>)>>)}
      [] OTHER -> {Str(<<"x">>), Str(<<"x", "y">>)}

TypedRuleFields ==
    {[Field("extra", type) EXCEPT !.required = required] :
        type \in FieldTypes, required \in BOOLEAN}

RuleProbes ==
    {[kind |-> "rule", field |-> f, value |-> v, done |-> FALSE, issues |-> <<>>] :
        f \in RuleFields, v \in RuleValues}
    \cup
    UNION {{[kind |-> "rule", field |-> f, value |-> v, done |-> FALSE, issues |-> <<>>] :
               v \in WidgetValues(f.type) \cup {Undefined, Null}} : f \in TypedRuleFields}

InitProbe ==
    /\ schema = Flat(<<>>)
    /\ currentStep = 0
    /\ formData = EmptyObject
    /\ values = EmptyObject
    /\ conditionalFields = EmptyObject
    /\ phase = "idle"
    /\ pending = <<>>
    /\ emitted = 0
    /\ lastPass = NoPass
    /\ lastRender = NoRender
    /\ trail = [ok |-> TRUE, data |-> <<>>]
    /\ probe \in ConditionProbes \cup RuleProbes

\* evaluateCondition(condition, formValues)
Evaluate ==
    /\ probe.kind = "condition"
    /\ ~probe.done
    /\ probe' = [probe EXCEPT !.done = TRUE,
                              !.result = evaluateCondition(probe.condition, probe.formValues)]
    /\ UNCHANGED <<schema, currentStep, formData, values, conditionalFields, phase,
                   pending, emitted, lastPass, lastRender, trail>>

\* schemaObj[field.name] applied to a value
Parse ==
    /\ probe.kind = "rule"
    /\ ~probe.done
    /\ probe' = [probe EXCEPT !.done = TRUE,
                              !.issues = ParseValue(probe.field, probe.value).issues]
    /\ UNCHANGED <<schema, currentStep, formData, values, conditionalFields, phase,
                   pending, emitted, lastPass, lastRender, trail>>

NextProbe == Evaluate \/ Parse

SpecProbe == InitProbe /\ [][NextProbe]_vars

(***************************************************************************)
(* DynamicFormGenerator mounted on its own with initialData: the effects   *)
(* of the first render and of the renders they cause.                      *)
(***************************************************************************)
\* The fields of a schema, declared on the schema itself
MountSchemas ==
    {Flat(getAllFields(sch)) : sch \in {SchemaShip, SchemaGift, SchemaChain, SchemaCustoms}}

FieldNames(fields) == {fields[i].name : i \in DOMAIN fields}

\* initialData: a value for some of the fields
InitialData(fields) ==
    {d \in UNION {[ks -> UNION {Samples(k) : k \in ks}] : ks \in SUBSET FieldNames(fields)} :
        \A k \in DOMAIN d : d[k] \in Samples(k)}

InitMount ==
    /\ schema \in MountSchemas
    /\ currentStep = 0
    /\ formData = EmptyObject
    /\ values \in InitialData(getAllFields(schema))
    /\ conditionalFields = EmptyObject
    /\ phase = "effect"
    /\ pending = <<>>
    /\ emitted = 0
    /\ lastPass = NoPass
    /\ lastRender = Render(TRUE)
    /\ trail = [ok |-> TRUE, data |-> <<>>]
    /\ probe = [kind |-> "mount", initialData |-> values]

NextMount == RunEffects

SpecMount == InitMount /\ [][NextMount]_vars

(***************************************************************************)
(* Properties.                                                             *)
(***************************************************************************)

\* The fields the last validation pass was compiled from
PassFields == StepFields(lastPass.step)

\* Every field the schema declares, whatever its section
AllFields == getAllFields(schema)

\* A conditional field whose condition is false on vals and that vals holds
\* no value of
HiddenAndCleared(field, vals) ==
    /\ field.hasConditional
    /\ ~evaluateCondition(field.conditional, vals)
    /\ field.name \notin DOMAIN vals

\* C1: a required conditional field that is hidden, its condition false and
\* its value cleared, is reported by no validation pass: the pass has no
\* issue on it, so it cannot block the submit.
C1_HiddenRequiredFieldPasses ==
    lastPass.done =>
        \A i \in DOMAIN PassFields :
            (/\ PassFields[i].required
             /\ PassFields[i].name \in lastPass.hidden
             /\ HiddenAndCleared(PassFields[i], lastPass.vals))
            => ~HasErrorAt(lastPass.issues, PassFields[i].name)

\* C2: the merged result handed to the terminal submit has no key for a
\* conditional field that is hidden when the terminal submit happens, a field
\* submitted on an earlier visit of its step included.
C2_TerminalResultOmitsHidden ==
    (lastPass.done /\ lastPass.terminal) =>
        \A i \in DOMAIN AllFields :
            HiddenAndCleared(AllFields[i], values)
            => AllFields[i].name \notin DOMAIN lastPass.payload

\* C3: once a value change has been processed, and so in every snapshot a
\* validation pass reads, a conditional field whose condition is false has no
\* entry in the value snapshot.
C3_FalseConditionHasNoValue ==
    /\ phase = "idle" =>
           \A i \in DOMAIN AllFields :
               (AllFields[i].hasConditional
                /\ ~evaluateCondition(AllFields[i].conditional, values))
               => AllFields[i].name \notin DOMAIN values
    /\ lastPass.done =>
           \A i \in DOMAIN PassFields :
               (PassFields[i].hasConditional
                /\ ~evaluateCondition(PassFields[i].conditional, lastPass.vals))
               => PassFields[i].name \notin DOMAIN lastPass.vals

\* C4: once the terminal submit has been performed, no further step performs
\* it again.
C4_TerminalSubmitOnce == [][emitted >= 1 => emitted' = emitted]_vars

\* The data of the steps submitted in order, merged key by key: the value of
\* the last step that holds the key
LastWins(datas) ==
    [k \in UNION {DOMAIN datas[i] : i \in DOMAIN datas} |->
        datas[CHOOSE i \in DOMAIN datas :
                  /\ k \in DOMAIN datas[i]
                  /\ \A j \in DOMAIN datas : k \in DOMAIN datas[j] => j <= i][k]]

\* Every step has been submitted once, in order, each submit valid
AllStepsInOrder == trail.ok /\ Len(trail.data) = Len(sections(schema))

\* C5: after the valid submits of all steps in order the cumulative result is
\* the union of the data of the steps, and on a key two steps share the value
\* of the later step.
C5_CumulativeResultLastWins ==
    AllStepsInOrder => formData = LastWins(trail.data)

C5_Witness ==
    /\ AllStepsInOrder
    /\ Len(trail.data) >= 2
    /\ \E k \in DOMAIN trail.data[1] \cap DOMAIN trail.data[2] :
           trail.data[1][k] # trail.data[2][k] /\ formData[k] = trail.data[2][k]

\* The names section i declares: those of its fields and those its
\* cross-field checks list
SectionNames(step) ==
    UNION {{sections(schema)[step + 1].fields[i].name}
           \cup {sections(schema)[step + 1].fields[i].customValidator.fields[k] :
                    k \in DOMAIN sections(schema)[step + 1].fields[i].customValidator.fields} :
           i \in DOMAIN sections(schema)[step + 1].fields}

\* The required fields of the sections after step that vals holds no value of
LaterRequiredUnset(step, vals) ==
    UNION {{sections(schema)[j].fields[i].name :
               i \in {n \in DOMAIN sections(schema)[j].fields :
                         /\ sections(schema)[j].fields[n].required
                         /\ sections(schema)[j].fields[n].name \notin DOMAIN vals}} :
           j \in (step + 2)..Len(sections(schema))}
    \ SectionNames(step)

PathNames(issue) == {issue.path[k] : k \in DOMAIN issue.path}

\* C6: the validation pass of step i reports issues on names of section i
\* only; a required field of a later section that has no value raises no
\* issue in it.
C6_StepValidatesOwnSection ==
    (lastPass.done /\ Len(sections(schema)) > 0) =>
        \A i \in DOMAIN lastPass.issues :
            /\ PathNames(lastPass.issues[i]) \subseteq SectionNames(lastPass.step)
            /\ PathNames(lastPass.issues[i])
                   \cap LaterRequiredUnset(lastPass.step, lastPass.vals) = {}

C6_Witness ==
    /\ Len(sections(schema)) > 0
    /\ lastPass.done
    /\ lastPass.valid
    /\ lastPass.issues = <<>>
    /\ LaterRequiredUnset(lastPass.step, lastPass.vals) # {}
    /\ currentStep = lastPass.step + 1

\* C7: a render recompiles the ruleset only when it was handed another
\* schema reference.
C7_CompiledOncePerSchema ==
    (lastRender.rendered /\ lastRender.recompiled) => lastRender.schemaChanged

\* C8: when a cross-field check fails in a validation pass, every field the
\* check lists in fields has an error keyed by its name that carries the
\* errorMessage of the check.
C8_CrossFieldErrorOnEveryField ==
    (lastPass.done /\ ~lastPass.aborted) =>
        \A i \in DOMAIN crossFieldValidations(PassFields) :
            ~crossFieldPasses(crossFieldValidations(PassFields)[i], lastPass.data) =>
                \A k \in DOMAIN crossFieldValidations(PassFields)[i].fields :
                    \E j \in DOMAIN lastPass.issues :
                        /\ lastPass.issues[j].path =
                               <<crossFieldValidations(PassFields)[i].fields[k]>>
                        /\ lastPass.issues[j].message =
                               crossFieldValidations(PassFields)[i].errorMessage

\* The arguments an asynchronous validator of field is due: the value of the
\* field and the value of each companion field, as the snapshot vals holds them
LiveArgs(field, vals) ==
    <<Get(vals, field.name)>>
    \o [k \in DOMAIN field.asyncValidator.params |-> Get(vals, field.asyncValidator.params[k])]

\* C9: every call of an asynchronous validator in a validation pass has the
\* value of the field as its first argument and, after it, the value the
\* snapshot of the pass holds for each field listed in params.
C9_AsyncArgsAreLive ==
    lastPass.done =>
        \A c \in DOMAIN lastPass.calls :
            \A i \in DOMAIN PassFields :
                PassFields[i].name = lastPass.calls[c].field
                => lastPass.calls[c].args = LiveArgs(PassFields[i], lastPass.vals)

\* The calls of the last pass that the validator settled with false
SettledFalse ==
    {c \in DOMAIN lastPass.calls :
        asyncValidators(lastPass.calls[c].name, lastPass.calls[c].args) = "false"}

\* C10: when an asynchronous validator settles with false, the pass fails, it
\* has an issue on the field with the errorMessage the field configures, and
\* the submit callback is not called, so the pass performs no terminal submit.
C10_AsyncFalseFailsField ==
    lastPass.done =>
        \A c \in SettledFalse :
            /\ ~lastPass.valid
            /\ ~lastPass.terminal
            /\ \A i \in DOMAIN PassFields :
                   (PassFields[i].name = lastPass.calls[c].field
                    /\ PassFields[i].errorMessage # "")
                   => \E j \in DOMAIN lastPass.issues :
                          /\ lastPass.issues[j].path = <<PassFields[i].name>>
                          /\ lastPass.issues[j].message = PassFields[i].errorMessage

C10_Witness ==
    /\ lastPass.done
    /\ SettledFalse # {}
    /\ ~lastPass.valid
    /\ HasErrorAt(lastPass.issues, "username")
    /\ ErrorAt(lastPass.issues, "username") = "Username is taken"

\* The required fields on screen whose condition is shipTo notEquals "domestic"
ShipToFields(fields) ==
    {i \in DOMAIN fields :
        /\ fields[i].required
        /\ fields[i].hasConditional
        /\ fields[i].conditional = Leaf("shipTo", "notEquals", Str(domestic))}

Empty(v) == v \in {Undefined, Null, Str(<<>>)}

\* C11: for a required field shown when shipTo notEquals "domestic", once a
\* change has been processed: while shipTo is "international" the field is
\* visible, and a validation pass reports it exactly when its value is empty;
\* while shipTo is "domestic" the field is hidden and the snapshot has no
\* value of it.
C11_ShipToShowsAndHides ==
    /\ phase = "idle" =>
           \A i \in ShipToFields(StepFields(currentStep)) :
               /\ Get(values, "shipTo") = Str(international)
                      => Shown(conditionalFields, StepFields(currentStep)[i])
               /\ Get(values, "shipTo") = Str(domestic)
                      => /\ ~Shown(conditionalFields, StepFields(currentStep)[i])
                         /\ StepFields(currentStep)[i].name \notin DOMAIN values
    /\ lastPass.done =>
           \A i \in ShipToFields(PassFields) :
               Get(lastPass.vals, "shipTo") = Str(international)
               => (HasErrorAt(lastPass.issues, PassFields[i].name)
                      <=> Empty(Get(lastPass.vals, PassFields[i].name)))

\* C12: Previous takes the step from i > 0 to i - 1 and leaves it at 0, and
\* the cumulative result is the same after it as before.
C12_PreviousKeepsResult ==
    [][PrevStep =>
          /\ currentStep' = (IF currentStep > 0 THEN currentStep - 1 ELSE 0)
          /\ formData' = formData]_vars

\* Previous has taken the form back to step 0 with a result collected
C12_Witness ==
    /\ currentStep = 0
    /\ formData # EmptyObject
    /\ ~trail.ok
    /\ lastRender = Render(ParentRenderChangesSchema)
    /\ lastPass = NoPass

\* A synchronous check of the field itself fails on val: its type, a length,
\* pattern or range check, or the required refine
LocalCheckFails(field, val) ==
    IF val = Undefined THEN RequiredIssues(field, val) # <<>>
    ELSE \/ TypeIssues(field, val) # <<>>
         \/ TypeChecks(field, val) \o RequiredIssues(field, val) # <<>>

\* The last pass has a field that fails one of its own synchronous checks
PerFieldFailure ==
    \E i \in DOMAIN ShapeFields(PassFields) :
        LocalCheckFails(ShapeFields(PassFields)[i].f,
                        Get(lastPass.vals, ShapeFields(PassFields)[i].f.name))

\* The last pass reports the failure of the cross-field checks
CrossFieldFailureReported ==
    /\ Len(crossFieldValidations(PassFields)) > 0
    /\ \E j \in DOMAIN lastPass.issues :
           lastPass.issues[j].path = crossFieldPath(crossFieldValidations(PassFields))

\* The last pass called an asynchronous validator that did not settle with true
AsyncFailureReported ==
    \E c \in DOMAIN lastPass.calls :
        /\ asyncValidators(lastPass.calls[c].name, lastPass.calls[c].args) # "true"
        /\ HasErrorAt(lastPass.issues, lastPass.calls[c].field)

\* C13: a validation pass evaluates the cross-field checks only when every
\* per-field check has passed, and calls an asynchronous validator only when
\* the cross-field checks have passed too: a pass that reports a cross-field
\* failure has no failing per-field check, and a pass that reports the failure
\* of an asynchronous validator has neither.
C13_LocalChecksBeforeAsync ==
    lastPass.done =>
        /\ CrossFieldFailureReported => ~PerFieldFailure
        /\ AsyncFailureReported => (~PerFieldFailure /\ ~CrossFieldFailureReported)
        /\ lastPass.calls # <<>> => (~PerFieldFailure /\ ~CrossFieldFailureReported)

\* C14: once a value change has been processed, the visibility map holds, for
\* every field on screen that declares conditional, the value of its condition
\* on the current snapshot, and a field that declares none is shown.
C14_MapFollowsSnapshot ==
    phase = "idle" =>
        \A i \in DOMAIN StepFields(currentStep) :
            IF StepFields(currentStep)[i].hasConditional
            THEN /\ StepFields(currentStep)[i].name \in DOMAIN conditionalFields
                 /\ conditionalFields[StepFields(currentStep)[i].name]
                        = evaluateCondition(StepFields(currentStep)[i].conditional, values)
            ELSE Shown(conditionalFields, StepFields(currentStep)[i])

\* The condition of the probe is a list of conditions
IsComposite == probe.kind = "condition" /\ Len(probe.condition.conditions) > 0

\* It is a single condition
IsLeaf == probe.kind = "condition" /\ Len(probe.condition.conditions) = 0

ChildHolds(i) == evaluateCondition(probe.condition.conditions[i], probe.formValues)

\* C15: a condition with a non-empty conditions list holds, under "or", iff
\* one of its children holds, and under "and" or without logicalOperator iff
\* all of them hold; the children may be such lists themselves.
C15_CompositeCombinesChildren ==
    (IsComposite /\ probe.done) =>
        probe.result =
            (IF probe.condition.logicalOperator = "or"
             THEN \E i \in DOMAIN probe.condition.conditions : ChildHolds(i)
             ELSE \A i \in DOMAIN probe.condition.conditions : ChildHolds(i))

\* A list without logicalOperator, one child a list itself, of which one child
\* holds and the other does not
C15_Witness ==
    /\ IsComposite
    /\ probe.done
    /\ probe.condition.logicalOperator = NoOperator
    /\ Len(probe.condition.conditions) = 2
    /\ Len(probe.condition.conditions[2].conditions) = 2
    /\ ChildHolds(1) # ChildHolds(2)
    /\ ~probe.result

\* The field names a validator that its registry does not hold
NamesUnregistered(field) ==
    \/ field.hasAsyncValidator /\ field.asyncValidator.name \notin asyncValidatorNames
    \/ field.hasCustomValidator /\ field.customValidator.validator \notin customValidatorNames

\* The field without the validators that no registry holds
WithoutUnregistered(field) ==
    [field EXCEPT
        !.hasAsyncValidator = @ /\ field.asyncValidator.name \in asyncValidatorNames,
        !.hasCustomValidator = @ /\ field.customValidator.validator \in customValidatorNames]

IssuesOf(fields, vals) ==
    ParseObject(ShapeFields(fields), crossFieldValidations(fields), vals).issues

Throws(call) == asyncValidators(call.name, call.args) = "throw"

\* C17: when a remote validator rejects, the pass that called it completes
\* with a validation failure on the field of the validator, and the submit
\* callback is not invoked.
C17_AsyncThrowFailsField ==
    [][(lastPass'.done /\ \E c \in DOMAIN lastPass'.calls : Throws(lastPass'.calls[c])) =>
          /\ \A c \in DOMAIN lastPass'.calls :
                 Throws(lastPass'.calls[c]) =>
                     HasErrorAt(lastPass'.issues, lastPass'.calls[c].field)
          /\ ~lastPass'.valid
          /\ UNCHANGED <<formData, currentStep, emitted, trail>>]_vars

\* isPostalCodeValid was called without a country, and zip carries the error
C17_Witness ==
    /\ lastPass.done
    /\ \E c \in DOMAIN lastPass.calls :
          /\ Throws(lastPass.calls[c])
          /\ lastPass.calls[c].field = "zip"
          /\ Len(lastPass.calls[c].args) = 1
    /\ ErrorAt(lastPass.issues, "zip") = "Validation failed for zip"
    /\ emitted = 0
    /\ formData = EmptyObject

\* The value the snapshot of the probe holds for the field of its condition
Operand == Get(probe.formValues, probe.condition.field)

\* C18: evaluateCondition yields a boolean for every condition and snapshot,
\* and a single condition without equals whose operator is missing or not
\* one of the eight holds exactly when the field's value is the value member.
C18_EvaluateIsTotal ==
    (probe.kind = "condition" /\ probe.done) =>
        /\ probe.result \in BOOLEAN
        /\ (IsLeaf /\ probe.condition.equals = Undefined
                   /\ probe.condition.operator \notin Operators) =>
               probe.result = StrictEquals(Operand, probe.condition.value)

\* An operator the switch does not know, on a field that holds the value
C18_Witness ==
    /\ IsLeaf
    /\ probe.done
    /\ probe.condition.equals = Undefined
    /\ probe.condition.operator = "matches"
    /\ probe.condition.value = Str(<<"x">>)
    /\ Operand = Str(<<"x">>)
    /\ probe.result

\* C19: a field whose type has no case of its own gets the rule of the
\* default branch: without required, no value and any string pass; with
\* required, the rule fails exactly on undefined, null and the empty string.
C19_UnknownTypeGetsDefaultRule ==
    (probe.kind = "rule" /\ probe.done /\ probe.field.type \in UnknownTypes) =>
        IF probe.field.required
        THEN (probe.issues # <<>>) = Empty(probe.value)
        ELSE (probe.value = Undefined \/ probe.value.t = "string") => probe.issues = <<>>

\* A required field of unknown type on the empty string
C19_Witness ==
    /\ probe.kind = "rule"
    /\ probe.done
    /\ probe.field.type = "rating"
    /\ probe.field.required
    /\ probe.field.errorMessage = ""
    /\ probe.value = Str(<<>>)
    /\ HasErrorAt(probe.issues, "extra")
    /\ ErrorAt(probe.issues, "extra") = "This field is required"

\* C20: a single condition that has both equals and an operator holds
\* exactly when the field's value is the equals member, whatever the
\* operator and the value member are.
C20_EqualsWinsOverOperator ==
    (IsLeaf /\ probe.done /\ probe.condition.equals # Undefined
            /\ probe.condition.operator \in Operators) =>
        probe.result = StrictEquals(Operand, probe.condition.equals)

\* notEquals on the value the field holds would be false; equals makes it true
C20_Witness ==
    /\ IsLeaf
    /\ probe.done
    /\ probe.condition.operator = "notEquals"
    /\ probe.condition.equals = Str(<<"x">>)
    /\ probe.condition.value = Str(<<"x">>)
    /\ Operand = Str(<<"x">>)
    /\ probe.result

\* The recomputed map holds, for each of its fields, the boolean the published
\* map holds
SameBooleans(map, new) ==
    \A key \in DOMAIN new : key \in DOMAIN map /\ map[key] = new[key]

\* C21: when the map recomputed after a value change holds for every
\* conditional field the boolean the published map holds, the published map
\* stays as it is and nothing is rendered; otherwise the recomputed map is
\* published.
C21_PublishOnlyOnDifference ==
    [][ChangeValue =>
          IF SameBooleans(conditionalFields,
                          newConditionalFields(StepFields(currentStep), values'))
          THEN /\ conditionalFields' = conditionalFields
               /\ phase' = "idle"
               /\ lastRender' = NoRender
          ELSE /\ conditionalFields' = newConditionalFields(StepFields(currentStep), values')
               /\ lastRender' = Render(FALSE)]_vars

\* country was entered while shown: the map is the one published before
C21_Witness ==
    /\ schema = SchemaShip
    /\ currentStep = 0
    /\ Get(values, "shipTo") = Str(international)
    /\ Get(values, "country") # Undefined
    /\ conditionalFields = [k \in {"country"} |-> TRUE]
    /\ phase = "idle"
    /\ lastRender = NoRender
    /\ lastPass = NoPass
    /\ pending = <<>>

\* C22: a single condition without a field member holds whatever its
\* operator, its value and the snapshot are, so that the field it belongs to
\* is shown.
C22_MissingFieldShows ==
    (IsLeaf /\ probe.done /\ probe.condition.field = NoField) => probe.result

Max(a, b) == IF a >= b THEN a ELSE b

\* C23: the step index stays between 0 and the index of the last section,
\* 0 when the schema has no sections.
C23_StepWithinSections ==
    /\ currentStep >= 0
    /\ currentStep <= Max(0, Len(sections(schema)) - 1)

\* C24: once every step has been submitted in order, each submit valid and
\* no retreat in between (as many submits as there are sections, one for a
\* schema without sections), the terminal submit has been performed.
C24_SubmitsReachTerminal ==
    (trail.ok /\ Len(trail.data) >= Max(1, Len(sections(schema)))) => emitted >= 1

\* The field is conditional, initialData holds a value for it, and its
\* condition holds on initialData
HoldsInitially(field) ==
    /\ field.hasConditional
    /\ field.name \in DOMAIN probe.initialData
    /\ evaluateCondition(field.conditional, probe.initialData)

ClearedValues(type) ==
    IF type \in {"number", "date"} THEN {Undefined, Null} ELSE {Undefined}

\* C26: whatever its type, a field that is not required and has no value
\* passes its rule.
C26_OptionalUnsetPasses ==
    (probe.kind = "rule" /\ probe.done /\ probe.field.type \in FieldTypes
        /\ ~probe.field.required /\ probe.value \in ClearedValues(probe.field.type)) =>
        probe.issues = <<>>

\* C27: whatever its type, a field passes its rule on the value its widget
\* writes for an entry, no other constraint being declared.
C27_WidgetValuePasses ==
    (probe.kind = "rule" /\ probe.done /\ probe.field.type \in FieldTypes
        /\ probe.value \in WidgetValues(probe.field.type)) =>
        probe.issues = <<>>

\* C28: a pass started at one step and completing while another step is
\* current does not move the step index, and performs the terminal submit
\* only if the current step is the last one.
C28_StaleSubmitHasNoEffect ==
    [][(pending # <<>> /\ SubmitResolve /\ Head(pending).step # currentStep) =>
          /\ currentStep' = currentStep
          /\ emitted' = emitted \/ isLastStep(currentStep)]_vars

\* The operator a negated operator negates
Positive(operator) ==
    CASE operator = "notEquals" -> "equals"
      [] operator = "notContains" -> "contains"
      [] operator = "isNotEmpty" -> "isEmpty"

\* C29: on every snapshot, a single condition with notEquals, notContains or
\* isNotEmpty holds exactly when the same condition with equals, contains or
\* isEmpty does not.
C29_NegatedOperatorsNegate ==
    (IsLeaf /\ probe.done /\ probe.condition.equals = Undefined
            /\ probe.condition.operator \in {"notEquals", "notContains", "isNotEmpty"}) =>
        probe.result =
            ~evaluateCondition(
                 [probe.condition EXCEPT !.operator = Positive(probe.condition.operator)],
                 probe.formValues)

\* C30: whenever effects are due, after finitely many rounds of hiding,
\* clearing and re-evaluating none is due any more.
C30_PropagationSettles == (phase = "effect") ~> (phase = "idle")

\* promo, shown while empty, has been given a value: it is about to be
\* hidden and cleared
C30_Witness ==
    /\ schema = SchemaLoop
    /\ phase = "effect"
    /\ Get(values, "promo") # Undefined
    /\ "promo" \in DOMAIN conditionalFields
    /\ ~conditionalFields["promo"]

====
